---------------------------- MODULE Spec2Model ----------------------------
(***************************************************************************)
(* LiquidAudioBook: the ingestion / synthesis / assembly pipeline.         *)
(*                                                                         *)
(*   PageFileHandler   (page_file_handler.py)  image -> row of pages.csv   *)
(*   process_existing_files (main.py)          batch scan of a directory   *)
(*   TTSProcessor.text_to_speech_batch         rows -> page_NNN.wav        *)
(*   TTSProcessor.combine_audiobook            page clips -> audiobook.wav *)
(*                                                                         *)
(* The table pages.csv is the sequence csv of its data rows (the header is *)
(* written with the first row, so the file exists iff csv is non-empty).   *)
(* pandas row labels are 0-based positions in the file; the model's        *)
(* sequences are 1-based and PandasIndex converts.                         *)
(* The column processed_at (a wall-clock string) is not modelled.          *)
(***************************************************************************)
EXTENDS Integers, Sequences, FiniteSets, TLC

(***************************************************************************)
(* Bounds of the model.                                                    *)
(***************************************************************************)
MaxRows == 3

(* append_to_csv calls made by each of two concurrent handlers *)
MaxAppends == 2

(* audio files handed to one combine_audiobook call *)
MaxClips == 2

(* samples of a short audio file *)
MaxSamples == 3

(* the short silence durations, in tenths of a millisecond *)
MaxSilence == 2

(* the page numbers the extraction collaborator may answer: 0..MaxCollabPage *)
MaxCollabPage == 5

(***************************************************************************)
(* Files of the watched directory.  A stem is given as its characters so   *)
(* that the page number is computed from it as the code computes it.       *)
(***************************************************************************)
AllFiles == {"page_01.jpg", "page_02.jpg", "page_03.jpg", "notes.txt"}

(* the watched directory of the general specification *)
WatchedDir == {"page_01.jpg", "page_02.jpg", "notes.txt"}

(* the watched directory of a run of main on a three-page book *)
BookDir == {"page_01.jpg", "page_02.jpg", "page_03.jpg"}

(* a directory that holds the same page twice, as a .jpg and as a .png *)
ShelfDir == {"page_01.jpg", "page_01.png"}

(* image names for the page-number resolution: stems without a digit, with *)
(* a first run of digits that is 0, with several runs, with leading zeros  *)
ResolvePaths ==
    {"page_01.jpg", "page_02.jpg", "page_03.jpg", "page_01.png", "cover.jpg",
     "page_00.jpg", "scan_0_7.jpg", "p3_v2.jpg", "img007b.jpg", "12.jpg"}

Suffix(path) ==
    CASE path = "notes.txt" -> ".txt"
      [] path = "page_01.png" -> ".png"
      [] OTHER -> ".jpg"

Stem(path) ==
    CASE path = "page_01.jpg" -> <<"p", "a", "g", "e", "_", "0", "1">>
      [] path = "page_02.jpg" -> <<"p", "a", "g", "e", "_", "0", "2">>
      [] path = "page_03.jpg" -> <<"p", "a", "g", "e", "_", "0", "3">>
      [] path = "page_01.png" -> <<"p", "a", "g", "e", "_", "0", "1">>
      [] path = "cover.jpg" -> <<"c", "o", "v", "e", "r">>
      [] path = "page_00.jpg" -> <<"p", "a", "g", "e", "_", "0", "0">>
      [] path = "scan_0_7.jpg" -> <<"s", "c", "a", "n", "_", "0", "_", "7">>
      [] path = "p3_v2.jpg" -> <<"p", "3", "_", "v", "2">>
      [] path = "img007b.jpg" -> <<"i", "m", "g", "0", "0", "7", "b">>
      [] path = "12.jpg" -> <<"1", "2">>
      [] OTHER -> <<"n", "o", "t", "e", "s">>

image_extensions == {".jpg", ".jpeg", ".png", ".gif", ".bmp", ".tiff", ".webp"}

Digits == {"0", "1", "2", "3", "4", "5", "6", "7", "8", "9"}

DigitValue(c) ==
    CASE c = "0" -> 0 [] c = "1" -> 1 [] c = "2" -> 2 [] c = "3" -> 3
      [] c = "4" -> 4 [] c = "5" -> 5 [] c = "6" -> 6 [] c = "7" -> 7
      [] c = "8" -> 8 [] OTHER -> 9

RECURSIVE DigitRunValue(_, _, _)
(* int() of the run of digits of s that starts at position i *)
DigitRunValue(s, i, acc) ==
    IF i > Len(s) \/ s[i] \notin Digits
    THEN acc
    ELSE DigitRunValue(s, i + 1, 10 * acc + DigitValue(s[i]))

(* re.search(r'\d+', filename): the first run of digits, 0 when there is none *)
FilenamePageNumber(path) ==
    LET s == Stem(path)
        starts == {i \in 1..Len(s) : s[i] \in Digits}
    IN IF starts = {}
       THEN 0
       ELSE DigitRunValue(s, CHOOSE i \in starts : \A j \in starts : i <= j, 0)

(***************************************************************************)
(* The extraction collaborator (ollama): what PageProcessor.process may    *)
(* return for an image.  Its text and word_count are whatever the model    *)
(* answered; nothing in the code relates the two.                          *)
(***************************************************************************)
PageData(page_number, text, word_count) ==
    [ok |-> TRUE, page_number |-> page_number, text |-> text,
     word_count |-> word_count]

(* process() returned None, or raised *)
NoPageData == [ok |-> FALSE]

(* the answers drawn for the files of WatchedDir: between them an empty    *)
(* text, a whitespace-only text, and a text whose word_count is right or 0 *)
AnyAnswer(path) ==
    CASE path = "page_01.jpg" ->
           {NoPageData, PageData(0, "", 0), PageData(0, "Hello", 1)}
      [] OTHER ->
           {NoPageData, PageData(0, " ", 0), PageData(0, "Hello", 0)}

(* a resolution that prefers the number the model answered *)
ResolveCollabFirst(path, collab_page) ==
    IF collab_page > 0 THEN collab_page ELSE FilenamePageNumber(path)

(* PageProcessor.text2json: the filename's number overrides the model's *)
ResolvePageNumber(path, collab_page) ==
    IF FilenamePageNumber(path) > 0
    THEN FilenamePageNumber(path)
    ELSE collab_page

(***************************************************************************)
(* CSV cells as pandas reads and writes them.                              *)
(***************************************************************************)
NaN == "<NaN>"

(* pd.read_csv: a field that is empty, or one of pandas' default NA        *)
(* strings, is NaN                                                         *)
NaStrings ==
    {"", "#N/A", "#N/A N/A", "#NA", "-1.#IND", "-1.#QNAN", "-NaN", "-nan",
     "1.#IND", "1.#QNAN", "<NA>", "N/A", "NA", "NULL", "NaN", "None", "n/a",
     "nan", "null"}

ReadCell(s) == IF s \in NaStrings THEN NaN ELSE s

(* DataFrame.to_csv: NaN is written as the empty field *)
WriteCell(v) == IF v = NaN THEN "" ELSE v

ReadRow(r) ==
    [r EXCEPT !.text = ReadCell(r.text), !.audio_path = ReadCell(r.audio_path)]

WriteRow(r) ==
    [r EXCEPT !.text = WriteCell(r.text), !.audio_path = WriteCell(r.audio_path)]

read_csv(table) == [i \in 1..Len(table) |-> ReadRow(table[i])]

to_csv(frame) == [i \in 1..Len(frame) |-> WriteRow(frame[i])]

PandasIndex(i) == i - 1

(* str.strip() is empty: the text is made of whitespace only *)
StripIsEmpty(text) == text \in {"", " "}

sample_rate == 24000

VARIABLES
    dir,              \* the files of the watched directory
    collab,           \* the extraction collaborator: "any" or "book" (Answers)
    csv,              \* pages.csv: the data rows, in file order
    processed_files,  \* PageFileHandler.processed_files
    scanTodo,         \* process_existing_files: files the scan has yet to visit
    disk,             \* names of the audio files that exist in the audio directory
    ttsPc,            \* text_to_speech_batch: "idle", "loop", "done", "interrupted"
    df,               \* text_to_speech_batch: its DataFrame
    ttsIdx,           \* text_to_speech_batch: the row the loop is at (1-based)
    calls,            \* generate_audio calls of the current run: <<[row, ok]>>
    ttsReturn,        \* what the last text_to_speech_batch call returned
    combineStatus,    \* combine_audiobook: "none", "ok" or the error raised
    output,           \* combine_audiobook: the waveforms concatenated
    observe,          \* whether lastCall is recorded (a history variable)
    lastCall,         \* the last process_page call: what happened in it
    t2j,              \* a call of PageProcessor.text2json: arguments and result
    audioHist,        \* history of the generate_audio calls (recorded if observe)
    writers,          \* two append_to_csv calls on one file, step by step
    asm,              \* a call of combine_audiobook on given audio clips
    main,             \* the control flow of one invocation of main
    api               \* an upload request to /api/extract-text

vars == <<dir, collab, csv, processed_files, scanTodo, disk, ttsPc, df, ttsIdx,
          calls, ttsReturn, combineStatus, output, observe, lastCall, t2j,
          audioHist, writers, asm, main, api>>

(* the calls that are modelled on their own, apart from the pipeline *)
sideVars == <<writers, asm, main, api>>

(* what no action of the pipeline changes *)
envVars == <<dir, collab, observe, t2j, sideVars>>

handlerVars == <<csv, processed_files, scanTodo, lastCall>>

ttsVars == <<ttsPc, df, ttsIdx, calls, ttsReturn, audioHist>>

combineVars == <<combineStatus, output>>

NotReturned == "<not returned>"

None == "None"

(* no process_page call has been made *)
NoCall ==
    [path |-> "", extracted |-> FALSE, written |-> FALSE, caught |-> "none",
     raised |-> "none", returned |-> NotReturned, logged |-> ""]

(* no text2json call is under way *)
NoText2Json ==
    [image_path |-> "", collab_page |-> 0, returned |-> FALSE, page_number |-> 0]

(* no generate_audio call has been made: outcomes are the ways the calls  *)
(* of the current run ended, synth the rows for which a call ended with    *)
(* exit code 0 and wrote its file, content the row whose text each audio   *)
(* file was last written from                                              *)
NoAudioHist == [outcomes |-> <<>>, synth |-> {}, content |-> {}]

(* two handlers on the same output_file: api.py makes one per request *)
Handlers == {1, 2}

(* no append_to_csv call is under way and the file does not exist *)
NoWriters ==
    [exists      |-> FALSE,
     lines       |-> <<>>,
     pc          |-> [h \in Handlers |-> "idle"],
     file_exists |-> [h \in Handlers |-> FALSE],
     returned    |-> [h \in Handlers |-> 0]]

(* combine_audiobook has not been called on the clips *)
NoAsm ==
    [clips |-> <<>>, silence_dms |-> 0, returned |-> FALSE, status |-> "none",
     waveforms |-> <<>>, combined |-> [channels |-> 0, samples |-> 0]]

(* main has not been invoked; watching: the observer thread is running *)
NoMain ==
    [pc |-> "none", process_existing |-> FALSE, generate_audio |-> FALSE,
     combine_audiobook |-> FALSE, audio_models |-> FALSE, watching |-> FALSE,
     log |-> <<>>]

(* no upload request has been served *)
NoApi == [filename |-> "", status |-> ""]

InitSide ==
    /\ writers = NoWriters
    /\ asm = NoAsm
    /\ main = NoMain
    /\ api = NoApi

InitPipeline ==
    /\ lastCall = NoCall
    /\ t2j = NoText2Json
    /\ audioHist = NoAudioHist
    /\ InitSide
    /\ csv = <<>>
    /\ processed_files = {}
    /\ scanTodo = {}
    /\ disk = {}
    /\ ttsPc = "idle"
    /\ df = <<>>
    /\ ttsIdx = 0
    /\ calls = <<>>
    /\ ttsReturn = NotReturned
    /\ combineStatus = "none"
    /\ output = <<>>

Init ==
    /\ dir = WatchedDir
    /\ collab = "any"
    /\ observe = FALSE
    /\ InitPipeline

(* the text of the three-page book, as the collaborator extracts it *)
BookAnswers(path) ==
    CASE path = "page_01.jpg" -> {PageData(0, "Hello", 1)}
      [] path = "page_02.jpg" -> {PageData(0, "World", 1)}
      [] OTHER                -> {PageData(0, "", 0)}

(* process() raised: PageFileHandler takes any processor, and one that is  *)
(* not PageProcessor may let an exception out                              *)
ProcessRaised == [ok |-> FALSE, exc |-> "RuntimeError"]

(* the answers of the ingestion specification: every way a call can end *)
IngestAnswers(path) == {NoPageData, ProcessRaised, PageData(0, "Hello", 1)}

(* the answers for the directory that holds page 1 twice; the text of the  *)
(* .jpg may be the three characters N/A                                    *)
ShelfAnswers(path) ==
    CASE path = "page_01.jpg" -> {PageData(0, "Hello", 1), PageData(0, "N/A", 1)}
      [] OTHER                -> {PageData(0, "World", 1)}

(* what PageProcessor.process may return for a file *)
Answers(path) ==
    CASE collab = "any"    -> AnyAnswer(path)
      [] collab = "ingest" -> IngestAnswers(path)
      [] collab = "shelf"  -> ShelfAnswers(path)
      [] OTHER             -> BookAnswers(path)

(* combine_audiobook is the last call of a run of the model: it changes     *)
(* neither the table nor the audio directory, so what it returns depends    *)
(* only on the state it is called in.                                       *)
Running == combineStatus = "none"

(***************************************************************************)
(* PageFileHandler                                                         *)
(***************************************************************************)

(* process_page, lines 60-69: model_dump() plus the metadata *)
PageRow(image_path, page_data) ==
    [page_number |-> ResolvePageNumber(image_path, page_data.page_number),
     text        |-> page_data.text,
     word_count  |-> page_data.word_count,
     file_path   |-> image_path,
     audio_path  |-> ""]

(* append_to_csv: the row goes to the end of the file; an exception while  *)
(* writing is caught and logged and leaves the file as it was.             *)
append_to_csv(table, data, write_ok) ==
    IF write_ok THEN Append(table, data) ELSE table

(* an exception handler that catches nothing *)
no_except(exc) == exc

(* "except Exception as e: logger.error(...)": what is still raised after  *)
(* the clause; every exception of the model is an Exception                *)
except_Exception(exc) ==
    IF exc \in {"AttributeError", "RuntimeError", "OSError"} THEN "none" ELSE exc

(* lines 97-104: what the body of append_to_csv raises *)
AppendException(write_ok) == IF write_ok THEN "none" ELSE "OSError"

(* lines 54-77: what the body of process_page raises: process() raised, or *)
(* it returned None and None has no model_dump, or append_to_csv raised    *)
BodyException(page_data, write_ok) ==
    CASE page_data.ok           -> except_Exception(AppendException(write_ok))
      [] page_data = NoPageData -> "AttributeError"
      [] OTHER                  -> page_data.exc

(* what process_page raises to its caller *)
Raised(page_data, write_ok) == except_Exception(BodyException(page_data, write_ok))

(* the call as its caller and the log see it: caught is the exception an   *)
(* except clause logged (line 80 or line 108); the function has no return  *)
(* statement, and line 75 logs the success of whatever reached it          *)
CallRecord(image_path, page_data, write_ok) ==
    [path      |-> image_path,
     extracted |-> page_data.ok,
     written   |-> page_data.ok /\ AppendException(write_ok) = "none",
     caught    |-> IF page_data.ok
                   THEN AppendException(write_ok)
                   ELSE BodyException(page_data, write_ok),
     raised    |-> Raised(page_data, write_ok),
     returned  |-> IF Raised(page_data, write_ok) = "none" THEN None ELSE NotReturned,
     logged    |-> IF BodyException(page_data, write_ok) = "none"
                   THEN "Successfully processed"
                   ELSE "Error processing page"]

(* process_page with what the collaborator answered and how the write went *)
process_page_call(image_path, page_data, write_ok) ==
    /\ processed_files' = processed_files \cup {image_path}
    /\ IF page_data.ok
       THEN /\ Len(csv) < MaxRows
            /\ csv' = append_to_csv(csv, PageRow(image_path, page_data), write_ok)
       ELSE csv' = csv
    /\ lastCall' = IF observe
                   THEN CallRecord(image_path, page_data, write_ok)
                   ELSE lastCall

(* process_page: the path is recorded first; a failed extraction (None has *)
(* no model_dump) raises, which is caught and logged.                      *)
process_page(image_path) ==
    \E page_data \in Answers(image_path), write_ok \in BOOLEAN :
        process_page_call(image_path, page_data, write_ok)

(* on_created: a create event of the watcher *)
OnCreated(file_path) ==
    /\ Running
    /\ IF Suffix(file_path) \in image_extensions /\ file_path \notin processed_files
       THEN process_page(file_path)
       ELSE UNCHANGED <<csv, processed_files, lastCall>>
    /\ UNCHANGED <<envVars, scanTodo, disk, ttsVars, combineVars>>

(* process_existing_files: rglob("*") yields the files in the directory's  *)
(* own order, which is any order.  The files the filter of lines 24-26     *)
(* lets through are those the loop calls process_page for.                 *)
ScanFiles(directory) == {f \in directory : Suffix(f) \in image_extensions}

ScanStart ==
    /\ Running
    /\ scanTodo = {}
    /\ scanTodo' = ScanFiles(dir)
    /\ UNCHANGED <<envVars, csv, processed_files, lastCall, disk, ttsVars,
                   combineVars>>

(* one iteration of the loop of lines 23-27; an exception that left        *)
(* process_page would leave the loop and process_existing_files            *)
ScanStep(file_path) ==
    /\ Running
    /\ file_path \in scanTodo
    /\ \E page_data \in Answers(file_path), write_ok \in BOOLEAN :
         /\ process_page_call(file_path, page_data, write_ok)
         /\ scanTodo' = IF Raised(page_data, write_ok) = "none"
                        THEN scanTodo \ {file_path}
                        ELSE {}
    /\ UNCHANGED <<envVars, disk, ttsVars, combineVars>>

(* a new process: PageFileHandler.__init__ starts from an empty set, and a *)
(* scan of the process that ended is gone                                  *)
NewHandler ==
    /\ Running
    /\ processed_files' = {}
    /\ scanTodo' = {}
    /\ lastCall' = NoCall
    /\ UNCHANGED <<envVars, csv, disk, ttsVars, combineVars>>

(***************************************************************************)
(* TTSProcessor.generate_audio and text_to_speech_batch                    *)
(***************************************************************************)
Pad3(n) ==
    IF n < 10 THEN "00" \o ToString(n)
    ELSE IF n < 100 THEN "0" \o ToString(n)
    ELSE ToString(n)

(* f"page_{page_num:03d}.wav" *)
AudioFileName(page_num) == "page_" \o Pad3(page_num) \o ".wav"

(* How a run of the llama-lfm2-audio binary may end:                       *)
(*   "written"  exit code 0, the output file written                       *)
(*   "nofile"   exit code 0, nothing written                               *)
(*   "nonzero"  exit code not 0                                            *)
(*   "timeout"  subprocess.TimeoutExpired                                  *)
(*   "error"    any other exception                                        *)
Outcomes == {"written", "nofile", "nonzero", "timeout", "error"}

(* the audio directory after the binary ran *)
DiskAfter(files, output_path, outcome) ==
    IF outcome = "written" THEN files \cup {output_path} ELSE files

(* generate_audio: the path when the exit code is 0 and the file exists,   *)
(* "" otherwise                                                            *)
generate_audio(files, output_path, outcome) ==
    IF outcome \in {"timeout", "error"} THEN ""
    ELSE IF outcome = "nonzero" THEN ""
    ELSE IF output_path \in DiskAfter(files, output_path, outcome) THEN output_path
    ELSE ""

(* a skip test that looks for a missing text only *)
SkipRowNaOnly(row) == row.text = NaN

(* line 151: pd.isna(text) or not text.strip() *)
SkipRow(row) == row.text = NaN \/ StripIsEmpty(row.text)

(* an update that does not look at what generate_audio returned *)
RowAfterCallAlways(row, result_path, audio_path) ==
    [row EXCEPT !.audio_path = audio_path]

(* lines 168-173: the DataFrame row after the call *)
RowAfterCall(row, result_path, audio_path) ==
    IF result_path # "" THEN [row EXCEPT !.audio_path = audio_path] ELSE row

(* the history when a run begins *)
HistAtStart(h) == IF observe THEN [h EXCEPT !.outcomes = <<>>] ELSE h

(* the history after a call for the row at position i with output file f *)
HistAfterCall(h, i, f, outcome) ==
    IF ~observe THEN h
    ELSE [outcomes |-> Append(h.outcomes, outcome),
          synth    |-> IF outcome = "written" THEN h.synth \cup {i} ELSE h.synth,
          content  |-> IF outcome = "written"
                       THEN {c \in h.content : c.file # f}
                                \cup {[file |-> f, row |-> i]}
                       ELSE h.content]

(* a loop that stays on a row whose call failed *)
RetryIndex(idx, result_path) == IF result_path = "" THEN idx ELSE idx + 1

(* line 146: the for loop goes to the next row, whatever the call returned *)
NextIndex(idx, result_path) == idx + 1

(* lines 140-144 *)
TTSStart ==
    /\ Running
    /\ ttsPc \in {"idle", "done", "interrupted"}
    /\ Len(csv) > 0                     \* pages.csv exists
    /\ df' = read_csv(csv)
    /\ ttsIdx' = 1
    /\ calls' = <<>>
    /\ ttsPc' = "loop"
    /\ ttsReturn' = NotReturned
    /\ audioHist' = HistAtStart(audioHist)
    /\ UNCHANGED <<envVars, handlerVars, disk, combineVars>>

(* lines 146-177: one iteration of the loop *)
TTSStep ==
    /\ Running
    /\ ttsPc = "loop"
    /\ ttsIdx <= Len(df)
    /\ LET row == df[ttsIdx]
           audio_path == AudioFileName(row.page_number)
       IN IF SkipRow(row)
          THEN /\ ttsIdx' = ttsIdx + 1                    \* continue
               /\ UNCHANGED <<df, calls, disk, audioHist>>
          ELSE \E outcome \in Outcomes :
                 LET result_path == generate_audio(disk, audio_path, outcome)
                 IN /\ disk' = DiskAfter(disk, audio_path, outcome)
                    /\ df' = [df EXCEPT ![ttsIdx] =
                                 RowAfterCall(row, result_path, audio_path)]
                    /\ calls' = Append(calls, [row |-> ttsIdx,
                                               ok  |-> result_path # ""])
                    /\ audioHist' = HistAfterCall(audioHist, ttsIdx,
                                                  audio_path, outcome)
                    /\ ttsIdx' = NextIndex(ttsIdx, result_path)
    /\ UNCHANGED <<envVars, handlerVars, ttsPc, ttsReturn, combineVars>>

(* lines 179-181: df.to_csv(csv_path, index=False); the call returns None *)
TTSFinish ==
    /\ Running
    /\ ttsPc = "loop"
    /\ ttsIdx > Len(df)
    /\ csv' = to_csv(df)
    /\ ttsPc' = "done"
    /\ ttsReturn' = None
    /\ df' = <<>>                       \* the call's locals are gone
    /\ ttsIdx' = 0
    /\ UNCHANGED <<envVars, processed_files, scanTodo, lastCall, disk, calls,
                   audioHist, combineVars>>

(* the process is stopped inside the loop (KeyboardInterrupt, kill): line  *)
(* 180 is not reached and the DataFrame is lost with the process           *)
TTSInterrupt ==
    /\ Running
    /\ ttsPc = "loop"
    /\ ttsPc' = "interrupted"
    /\ df' = <<>>
    /\ ttsIdx' = 0
    /\ UNCHANGED <<envVars, handlerVars, disk, calls, ttsReturn, audioHist,
                   combineVars>>

(* an audio file is removed from the audio directory by something else *)
DeleteAudio(f) ==
    /\ Running
    /\ f \in disk
    /\ disk' = disk \ {f}
    /\ UNCHANGED <<envVars, handlerVars, ttsVars, combineVars>>

(***************************************************************************)
(* TTSProcessor.combine_audiobook                                          *)
(***************************************************************************)

(* a selection that keeps every row *)
AudioRowsAll(frame) == DOMAIN frame

(* line 208: df[df["audio_path"].notna()], as row positions *)
AudioRows(frame) == {i \in 1..Len(frame) : frame[i].audio_path # NaN}

(* the rows left in file order *)
FileOrders(frame, rows) ==
    {o \in [1..Cardinality(rows) -> rows] : \A a, b \in DOMAIN o : a < b => o[a] < o[b]}

(* line 208: .sort_values("page_number"); the default sort is not stable,  *)
(* so rows of equal page_number come in any order.                         *)
SortedOrders(frame, rows) ==
    {o \in [1..Cardinality(rows) -> rows] :
        /\ \A a, b \in DOMAIN o : a # b => o[a] # o[b]
        /\ \A a, b \in DOMAIN o :
              a < b => frame[o[a]].page_number <= frame[o[b]].page_number}

(* the product rounded to the nearest integer *)
SilenceSamplesRounded(silence_dms) == (silence_dms * sample_rate + 5000) \div 10000

(* line 243: int(silence_duration * sample_rate): int() truncates; the     *)
(* duration is given in tenths of a millisecond                            *)
SilenceSamples(silence_dms) == (silence_dms * sample_rate) \div 10000

Clip(frame, i) ==
    [kind |-> "clip", row |-> i, page |-> frame[i].page_number,
     file |-> frame[i].audio_path]

Silence(silence_dms) == [kind |-> "silence", samples |-> SilenceSamples(silence_dms)]

(* line 242: idx < len(audio_rows) - 1, idx the row's label in the file *)
SilenceAfter(i, n_audio_rows) == PandasIndex(i) < n_audio_rows - 1

RECURSIVE WaveformsBreak(_, _, _, _, _)
(* a loop that stops at the first missing file (break for continue) *)
WaveformsBreak(frame, order, k, files, silence_dms) ==
    IF k > Len(order) THEN <<>>
    ELSE LET i == order[k]
         IN IF frame[i].audio_path \notin files
            THEN <<>>
            ELSE <<[kind |-> "clip", row |-> i, page |-> frame[i].page_number,
                    file |-> frame[i].audio_path]>>
                 \o WaveformsBreak(frame, order, k + 1, files, silence_dms)

RECURSIVE Waveforms(_, _, _, _, _)
(* lines 219-245: the list waveforms, from position k of the sorted rows on *)
Waveforms(frame, order, k, files, silence_dms) ==
    IF k > Len(order) THEN <<>>
    ELSE LET i == order[k]
             rest == Waveforms(frame, order, k + 1, files, silence_dms)
         IN IF frame[i].audio_path \notin files
            THEN rest                                   \* continue
            ELSE <<Clip(frame, i)>>
                 \o (IF SilenceAfter(i, Len(order))
                     THEN <<Silence(silence_dms)>> ELSE <<>>)
                 \o rest

Combine(silence_dms) ==
    /\ Running
    /\ LET frame == read_csv(csv)
           rows == AudioRows(frame)
       IN IF Len(csv) = 0               \* there is no pages.csv
          THEN /\ combineStatus' = "FileNotFoundError"
               /\ output' = <<>>
          ELSE IF rows = {}
          THEN /\ combineStatus' = "ValueError: No audio files found in CSV"
               /\ output' = <<>>
          ELSE \E order \in SortedOrders(frame, rows) :
                 LET waveforms == Waveforms(frame, order, 1, disk, silence_dms)
                 IN IF waveforms = <<>>
                    THEN /\ combineStatus' = "RuntimeError: torch.cat"
                         /\ output' = <<>>
                    ELSE /\ combineStatus' = "ok"
                         /\ output' = waveforms
    /\ UNCHANGED <<envVars, handlerVars, ttsVars, disk>>

Next ==
    \/ \E p \in dir : OnCreated(p)
    \/ ScanStart
    \/ \E p \in dir : ScanStep(p)
    \/ TTSStart
    \/ TTSStep
    \/ TTSFinish
    \/ \E f \in disk : DeleteAudio(f)
    \/ Combine(10000)

Spec == Init /\ [][Next]_vars


(***************************************************************************)
(* main (main.py) with --process-existing --generate-audio                 *)
(* --combine-audiobook on a fresh directory holding a three-page book:     *)
(* the scan, then text_to_speech_batch, then combine_audiobook.            *)
(***************************************************************************)
InitMain ==
    /\ dir = BookDir
    /\ collab = "book"
    /\ observe = FALSE
    /\ InitPipeline

(* line 125 *)
MainScanStart == processed_files = {} /\ ScanStart

(* line 150, after process_existing_files returned *)
MainTTSStart ==
    /\ processed_files = ScanFiles(dir)
    /\ scanTodo = {}
    /\ ttsPc = "idle"
    /\ TTSStart

(* line 156, after text_to_speech_batch returned; the default silence *)
MainCombine == ttsPc = "done" /\ Combine(10000)

NextMain ==
    \/ MainScanStart
    \/ \E p \in dir : ScanStep(p)
    \/ MainTTSStart
    \/ TTSStep
    \/ TTSFinish
    \/ MainCombine

SpecMain == InitMain /\ [][NextMain]_vars


(***************************************************************************)
(* Ingestion alone: create events and scans through a PageFileHandler, and *)
(* restarts of the process (api.py builds a new PageFileHandler on the     *)
(* same pages.csv for every request, main.py for every run).  Every call   *)
(* of process_page is recorded in lastCall.                                *)
(***************************************************************************)
InitIngest ==
    /\ dir = WatchedDir
    /\ collab = "ingest"
    /\ observe = TRUE
    /\ InitPipeline

NextIngest ==
    \/ \E p \in dir : OnCreated(p)
    \/ ScanStart
    \/ \E p \in dir : ScanStep(p)
    \/ NewHandler

SpecIngest == InitIngest /\ [][NextIngest]_vars


(***************************************************************************)
(* The pipeline on a directory that holds page 1 twice (two rows of equal  *)
(* page_number), with a page whose text is N/A, and with a batch that may  *)
(* be interrupted.                                                         *)
(***************************************************************************)
InitShelf ==
    /\ dir = ShelfDir
    /\ collab = "shelf"
    /\ observe = FALSE
    /\ InitPipeline

NextShelf ==
    \/ \E p \in dir : OnCreated(p)
    \/ ScanStart
    \/ \E p \in dir : ScanStep(p)
    \/ TTSStart
    \/ TTSStep
    \/ TTSFinish
    \/ TTSInterrupt
    \/ \E f \in disk : DeleteAudio(f)
    \/ Combine(10000)

SpecShelf == InitShelf /\ [][NextShelf]_vars


(***************************************************************************)
(* PageProcessor.text2json as a function of the image path and of the page *)
(* number the extraction collaborator answered.                            *)
(***************************************************************************)
CollabPages == 0..MaxCollabPage

InitResolve ==
    /\ dir = ResolvePaths
    /\ collab = "book"
    /\ observe = FALSE
    /\ lastCall = NoCall
    /\ t2j \in {[NoText2Json EXCEPT !.image_path = p, !.collab_page = n] :
                   p \in ResolvePaths, n \in CollabPages}
    /\ csv = <<>>
    /\ processed_files = {}
    /\ scanTodo = {}
    /\ disk = {}
    /\ ttsPc = "idle"
    /\ df = <<>>
    /\ ttsIdx = 0
    /\ calls = <<>>
    /\ ttsReturn = NotReturned
    /\ combineStatus = "none"
    /\ output = <<>>
    /\ audioHist = NoAudioHist
    /\ InitSide

(* text2json returns the collaborator's PageData with the page number      *)
(* resolved; the row process_page builds from it carries that number       *)
Text2Json ==
    /\ ~t2j.returned
    /\ t2j' = [t2j EXCEPT
                 !.returned = TRUE,
                 !.page_number =
                     PageRow(t2j.image_path,
                             PageData(t2j.collab_page, "Hello", 1)).page_number]
    /\ UNCHANGED <<dir, collab, observe, sideVars, handlerVars, disk, ttsVars,
                   combineVars>>

NextResolve == Text2Json

SpecResolve == InitResolve /\ [][NextResolve]_vars


(***************************************************************************)
(* Properties                                                              *)
(***************************************************************************)
RowsOf(path) == {i \in DOMAIN csv : csv[i].file_path = path}

BlankTexts == {"", " "}

IsClip(w) == w.kind = "clip"

IsSilence(w) == w.kind = "silence"

ClipsOf(waveforms) == SelectSeq(waveforms, IsClip)

SilencesOf(waveforms) == SelectSeq(waveforms, IsSilence)

(* the rows of the table that carry an audio_path, with and without a file *)
RowsWithAudio == {i \in DOMAIN csv : csv[i].audio_path # ""}

RowsWithFile == {i \in RowsWithAudio : csv[i].audio_path \in disk}

(* C1: ingestion is idempotent per source path: however often a path is    *)
(* ingested through the handler (create events, scans), the table holds at *)
(* most one row whose file_path is that path.                              *)
C1_OneRowPerPath == \A p \in dir : Cardinality(RowsOf(p)) <= 1

(* C2: in the output of combine_audiobook the clips come in ascending      *)
(* page_number order: no clip of a higher page precedes a clip of a lower  *)
(* page, whatever the order of the rows in the table.                      *)
C2_PageOrder ==
    combineStatus = "ok" =>
        \A a, b \in DOMAIN output :
            (IsClip(output[a]) /\ IsClip(output[b])
               /\ output[a].page < output[b].page) => a < b

(* a combined output of two pages whose rows are in the table in the       *)
(* opposite order                                                          *)
C2_Witness ==
    /\ combineStatus = "ok"
    /\ \E a, b \in DOMAIN output :
          /\ IsClip(output[a]) /\ IsClip(output[b])
          /\ output[a].page < output[b].page
          /\ output[a].row > output[b].row

(* C3: when combine_audiobook places S clips in the output it inserts      *)
(* exactly S-1 silence gaps.                                               *)
C3_SilenceCount ==
    combineStatus = "ok" =>
        Len(SilencesOf(output)) = Len(ClipsOf(output)) - 1

(* C4: in the output of combine_audiobook clips and silence gaps alternate,*)
(* starting and ending with a clip: one gap between consecutive clips, no  *)
(* leading and no trailing silence.                                        *)
C4_SilencePlacement ==
    combineStatus = "ok" =>
        /\ Len(output) % 2 = 1
        /\ \A k \in DOMAIN output :
              IF k % 2 = 1 THEN IsClip(output[k]) ELSE IsSilence(output[k])

(* C5: in text_to_speech_batch a failed synthesis does not stop the batch: *)
(* every row with text that the loop has passed was submitted, a row whose *)
(* call succeeded carries its audio path, in the DataFrame and in the      *)
(* table written at the end, and a row whose call failed has the           *)
(* audio_path it had in the table before the run.                          *)
C5_FailureContained ==
    /\ ttsPc = "loop" =>
         /\ \A i \in 1..(ttsIdx - 1) :
               ~SkipRow(df[i]) => \E k \in DOMAIN calls : calls[k].row = i
         /\ \A k \in DOMAIN calls :
               LET i == calls[k].row
               IN IF calls[k].ok
                  THEN df[i].audio_path = AudioFileName(df[i].page_number)
                  ELSE df[i].audio_path = ReadCell(csv[i].audio_path)
    /\ ttsPc = "done" =>
         \A k \in DOMAIN calls :
             calls[k].ok =>
                 csv[calls[k].row].audio_path
                     = AudioFileName(csv[calls[k].row].page_number)

(* the loop is over, a call failed and a later call succeeded *)
C5_Witness ==
    /\ ttsPc = "loop"
    /\ ttsIdx > Len(df)
    /\ \E j, k \in DOMAIN calls : j < k /\ ~calls[j].ok /\ calls[k].ok

IsSummary(v) ==
    /\ v \notin {None, NotReturned}
    /\ v.attempted = v.succeeded + v.failed

(* C6: when text_to_speech_batch has returned, what it returned is a       *)
(* summary of the batch with attempted = succeeded + failed.               *)
C6_ReturnsSummary == ttsPc = "done" => IsSummary(ttsReturn)

(* C7: a run of text_to_speech_batch submits only rows that had no         *)
(* audio_path in the table when the run began.                             *)
C7_OnlyMissingAudio ==
    ttsPc = "loop" =>
        \A k \in DOMAIN calls : csv[calls[k].row].audio_path = ""

(* C8: when the file of some row with an audio_path is missing and the     *)
(* file of another exists, combine_audiobook completes, and the clips of   *)
(* its output are exactly the rows whose files exist, once each, in page   *)
(* order.                                                                  *)
C8_MissingFileSkipped ==
    (/\ combineStatus # "none"
     /\ RowsWithFile # RowsWithAudio
     /\ RowsWithFile # {}) =>
        LET clips == ClipsOf(output)
        IN /\ combineStatus = "ok"
           /\ Len(clips) = Cardinality(RowsWithFile)
           /\ {clips[k].row : k \in DOMAIN clips} = RowsWithFile
           /\ \A a, b \in DOMAIN clips :
                 a < b => clips[a].page <= clips[b].page

(* combine ran with one file missing and two clips left *)
C8_Witness ==
    /\ combineStatus = "ok"
    /\ RowsWithFile # RowsWithAudio
    /\ Len(ClipsOf(output)) >= 2

BookIngested ==
    /\ Len(csv) = 3
    /\ \E i \in DOMAIN csv : csv[i].file_path = "page_01.jpg" /\ csv[i].text = "Hello"
    /\ \E i \in DOMAIN csv : csv[i].file_path = "page_02.jpg" /\ csv[i].text = "World"
    /\ \E i \in DOMAIN csv : csv[i].file_path = "page_03.jpg" /\ csv[i].text = ""

(* C10: the three pages ingested in any traversal order, synthesis with    *)
(* every call succeeding and combine with 1 s of silence give pages 1 and  *)
(* 2 with audio, page 3 without, and the output                            *)
(* clip(page 1), 1 s of silence, clip(page 2).                             *)
C10_EndToEnd ==
    (/\ combineStatus # "none"
     /\ BookIngested
     /\ \A k \in DOMAIN calls : calls[k].ok) =>
        /\ \A i \in DOMAIN csv : (csv[i].audio_path # "") = (csv[i].page_number \in {1, 2})
        /\ combineStatus = "ok"
        /\ Len(output) = 3
        /\ IsClip(output[1]) /\ output[1].page = 1
        /\ IsSilence(output[2]) /\ output[2].samples = sample_rate
        /\ IsClip(output[3]) /\ output[3].page = 2

(* the paths that have a row in the table *)
TablePaths == {csv[i].file_path : i \in DOMAIN csv}

(* C11: a newly created PageFileHandler on an existing table treats every  *)
(* file_path of the table as processed, and a create event for a path that *)
(* already has a row adds no row for it, restarts included.                *)
C11_Resumption ==
    [][/\ NewHandler => TablePaths' \subseteq processed_files'
       /\ \A p \in dir :
             (RowsOf(p) # {} /\ OnCreated(p)) => RowsOf(p)' = RowsOf(p)]_vars

(* the step is a call process_page(p): made for a create event of a path   *)
(* the handler did not know, or by the scan for a file it had yet to visit *)
Called(p) ==
    /\ p \in processed_files'
    /\ p \notin processed_files \/ (p \in scanTodo /\ p \notin scanTodo')

(* C12: when the extraction fails for a file (process returned None, or    *)
(* raised), process_page returns without raising, the table is left as it  *)
(* was, and every file a scan has yet to visit stays to be visited.        *)
C12_ExtractionFailureContained ==
    [][\A p \in dir :
          (Called(p) /\ ~lastCall'.extracted) =>
              /\ lastCall'.path = p
              /\ lastCall'.raised = "none"
              /\ lastCall'.returned = None
              /\ csv' = csv
              /\ scanTodo \ {p} \subseteq scanTodo']_vars

(* process() raised for a file while the table held a row and the scan had *)
(* a file left to visit                                                    *)
C12_Witness ==
    /\ lastCall.path # ""
    /\ ~lastCall.extracted
    /\ lastCall.caught = "RuntimeError"
    /\ csv # <<>>
    /\ scanTodo # {}
    /\ lastCall.path \notin scanTodo

(* the first run of digits of each stem of ResolvePaths, read off the name *)
FirstRun(path) ==
    CASE path \in {"page_01.jpg", "page_01.png"} -> [found |-> TRUE, value |-> 1]
      [] path = "page_02.jpg"  -> [found |-> TRUE, value |-> 2]
      [] path = "page_03.jpg"  -> [found |-> TRUE, value |-> 3]
      [] path = "page_00.jpg"  -> [found |-> TRUE, value |-> 0]
      [] path = "scan_0_7.jpg" -> [found |-> TRUE, value |-> 0]
      [] path = "p3_v2.jpg"    -> [found |-> TRUE, value |-> 3]
      [] path = "img007b.jpg"  -> [found |-> TRUE, value |-> 7]
      [] path = "12.jpg"       -> [found |-> TRUE, value |-> 12]
      [] OTHER                 -> [found |-> FALSE, value |-> 0]

(* C13: the stored page_number is the value of the first run of digits of  *)
(* the filename stem when there is one and its value is > 0, and the page  *)
(* number the extraction collaborator answered otherwise.                  *)
C13_PageNumberResolution ==
    t2j.returned =>
        LET run == FirstRun(t2j.image_path)
        IN t2j.page_number = IF run.found /\ run.value > 0
                             THEN run.value
                             ELSE t2j.collab_page

(* a stem whose first run of digits is 0 and whose second is 7, with a     *)
(* collaborator that answered page 4: page 4 is stored                     *)
C13_Witness ==
    /\ t2j.returned
    /\ t2j.image_path = "scan_0_7.jpg"
    /\ t2j.collab_page = 4
    /\ t2j.page_number = 4

NoAudioFound == "ValueError: No audio files found in CSV"

(* C14: when no row of the table has an audio_path, combine_audiobook      *)
(* fails and writes no output: with the error "No audio files found in     *)
(* CSV" when pages.csv exists, with read_csv's FileNotFoundError when it   *)
(* does not; and an output that is written is never empty: it holds a clip.*)
C14_NoAudioAvailable ==
    /\ (combineStatus # "none" /\ RowsWithAudio = {}) =>
          /\ combineStatus = IF csv # <<>> THEN NoAudioFound ELSE "FileNotFoundError"
          /\ output = <<>>
    /\ combineStatus = "ok" => ClipsOf(output) # <<>>
    /\ combineStatus \notin {"none", "ok"} => output = <<>>

(* combine_audiobook after a batch that submitted a row and got no audio *)
C14_Witness ==
    /\ combineStatus = NoAudioFound
    /\ ttsPc = "done"
    /\ calls # <<>>
    /\ RowsWithAudio = {}

(* C15: when the write of a page record fails, process_page raises to its  *)
(* caller and does not log the page as successfully processed, and a scan  *)
(* that made the call visits no further file.                              *)
C15_WriteFailureSurfaced ==
    [][\A p \in dir :
          (Called(p) /\ lastCall'.extracted /\ ~lastCall'.written) =>
              /\ lastCall'.raised # "none"
              /\ lastCall'.logged # "Successfully processed"
              /\ (p \in scanTodo /\ p \notin scanTodo') => scanTodo' = {}]_vars

(* C16: text_to_speech_batch submits the rows in increasing page_number    *)
(* order: no row is submitted after a row of a higher page, whatever the   *)
(* order of the rows in the table.                                         *)
C16_SubmissionOrder ==
    \A j, k \in DOMAIN calls :
        j < k => csv[calls[j].row].page_number <= csv[calls[k].row].page_number

(* the lexical order of the file names of ShelfDir: ".jpg" before ".png" *)
PathBefore(a, b) == a = "page_01.jpg" /\ b = "page_01.png"

(* C17: in the output of combine_audiobook, clips of rows of equal         *)
(* page_number come in the lexical order of their file_path: no clip is    *)
(* placed before a clip of the same page whose file_path is lexically      *)
(* smaller.                                                                *)
C17_TieBreak ==
    combineStatus = "ok" =>
        \A a, b \in DOMAIN output :
            (/\ a < b
             /\ IsClip(output[a]) /\ IsClip(output[b])
             /\ output[a].page = output[b].page) =>
                ~PathBefore(csv[output[b].row].file_path,
                            csv[output[a].row].file_path)

(* C18: a run of text_to_speech_batch during which nothing else wrote to   *)
(* the table changes only audio_path values: the table it writes has the   *)
(* rows of the table it read, in the same order, each with the same        *)
(* page_number, text, word_count and file_path.                            *)
C18_OnlyAudioPathChanges ==
    [][(ttsPc = "loop" /\ ttsPc' = "done" /\ Len(csv) = Len(df)) =>
          /\ Len(csv') = Len(csv)
          /\ \A i \in DOMAIN csv :
                csv'[i] = [csv[i] EXCEPT !.audio_path = csv'[i].audio_path]]_vars

(* C19: when a batch is interrupted, the table holds the audio_path of     *)
(* every row whose synthesis had succeeded in that batch.                  *)
C19_DurableProgress ==
    ttsPc = "interrupted" =>
        \A k \in DOMAIN calls :
            calls[k].ok =>
                csv[calls[k].row].audio_path
                    = AudioFileName(csv[calls[k].row].page_number)

(* C20: a row appended to the table while a batch is between its read and  *)
(* its final write is still in the table after the batch has written: the  *)
(* write of the batch drops no row of the table.                           *)
C20_NoLostUpdate ==
    [][(ttsPc = "loop" /\ ttsPc' = "done") =>
          /\ Len(csv') >= Len(csv)
          /\ \A i \in DOMAIN csv : csv'[i].file_path = csv[i].file_path]_vars


(***************************************************************************)
(* append_to_csv step by step, called by two handlers on the same file     *)
(* (page_file_handler.py lines 82-108)                                     *)
(***************************************************************************)
HeaderLine == [kind |-> "header", handler |-> 0, call |-> 0]

RowLine(h, n) == [kind |-> "row", handler |-> h, call |-> n]

(* line 90: file_exists = os.path.exists(self.output_file) *)
AppendCheck(h) ==
    /\ writers.pc[h] = "idle"
    /\ writers.returned[h] < MaxAppends
    /\ writers' = [writers EXCEPT !.pc[h] = "checked",
                                  !.file_exists[h] = writers.exists]
    /\ UNCHANGED <<dir, collab, observe, t2j, asm, main, api, handlerVars,
                   disk, ttsVars, combineVars>>

(* line 97: open(self.output_file, "a") creates the file if it is absent *)
AppendOpen(h) ==
    /\ writers.pc[h] = "checked"
    /\ writers' = [writers EXCEPT !.pc[h] = "opened", !.exists = TRUE]
    /\ UNCHANGED <<dir, collab, observe, t2j, asm, main, api, handlerVars,
                   disk, ttsVars, combineVars>>

(* lines 98-104: the header if file_exists was false, then the row; both   *)
(* reach the file when the with block closes it                            *)
AppendWrite(h) ==
    /\ writers.pc[h] = "opened"
    /\ LET row == RowLine(h, writers.returned[h] + 1)
           written == IF writers.file_exists[h] THEN <<row>>
                                                ELSE <<HeaderLine, row>>
       IN writers' = [writers EXCEPT !.pc[h] = "idle",
                                     !.lines = writers.lines \o written,
                                     !.returned[h] = writers.returned[h] + 1]
    /\ UNCHANGED <<dir, collab, observe, t2j, asm, main, api, handlerVars,
                   disk, ttsVars, combineVars>>

NextAppend == \E h \in Handlers : AppendCheck(h) \/ AppendOpen(h) \/ AppendWrite(h)

SpecAppend == Init /\ [][NextAppend]_vars

(* C21: whenever no append_to_csv call of the two handlers is under way    *)
(* and at least one has been made on the initially absent file, the file   *)
(* holds exactly one header line, as its first line, and exactly one data  *)
(* row for each call made.                                                 *)
C21_OneHeader ==
    LET lines == writers.lines
    IN ((\A h \in Handlers : writers.pc[h] = "idle") /\ writers.exists) =>
          /\ lines[1] = HeaderLine
          /\ Cardinality({i \in DOMAIN lines : lines[i] = HeaderLine}) = 1
          /\ \A h \in Handlers : \A n \in 1..writers.returned[h] :
                Cardinality({i \in DOMAIN lines : lines[i] = RowLine(h, n)}) = 1
          /\ Len(lines) = 1 + writers.returned[1] + writers.returned[2]


(***************************************************************************)
(* The watcher's ingestion and synthesis on the directory that holds page  *)
(* 1 twice, with the history of the generate_audio calls recorded.         *)
(***************************************************************************)
InitAudio ==
    /\ dir = ShelfDir
    /\ collab = "shelf"
    /\ observe = TRUE
    /\ InitPipeline

NextAudio ==
    \/ \E p \in dir : OnCreated(p)
    \/ TTSStart
    \/ TTSStep
    \/ TTSFinish

SpecAudio == InitAudio /\ [][NextAudio]_vars

(* C22: every record of the table with a non-empty audio_path is a record  *)
(* for which a generate_audio call ended with exit code 0 and wrote the    *)
(* output file; every other record, a freshly ingested one included, has   *)
(* an empty audio_path.                                                    *)
C22_AudioPathOnlyAfterSuccess ==
    \A i \in DOMAIN csv : csv[i].audio_path # "" => i \in audioHist.synth


(***************************************************************************)
(* combine_audiobook on given audio files: the tensors of lines 225-248.   *)
(* A tensor is given by its shape (channels, samples).                     *)
(***************************************************************************)
(* the sample rates of the audio files *)
Rates == {16000, 22050, sample_rate}

(* the lengths of the audio files: short ones and ten seconds at 16 kHz *)
Lengths == (1..MaxSamples) \cup {160000}

(* the silence_duration arguments: short ones and the default 1.0 s *)
Durations == (0..MaxSilence) \cup {10000}

AudioFiles == [channels : {1, 2}, sr : Rates, n : Lengths]

RECURSIVE GCD(_, _)
GCD(a, b) == IF b = 0 THEN a ELSE GCD(b, a % b)

(* a resampler whose output length is rounded down *)
ResampleLengthFloor(orig_freq, new_freq, length) ==
    LET g == GCD(orig_freq, new_freq)
    IN ((new_freq \div g) * length) \div (orig_freq \div g)

(* lines 236-237: torchaudio.transforms.Resample(sr, sample_rate) gives    *)
(* ceil(new_freq * length / orig_freq) samples, the rates reduced by their *)
(* greatest common divisor                                                 *)
ResampleLength(orig_freq, new_freq, length) ==
    LET g == GCD(orig_freq, new_freq)
    IN ((new_freq \div g) * length + (orig_freq \div g) - 1) \div (orig_freq \div g)

(* lines 226-231: sf.read and the tensor of shape (channels, samples) *)
Load(f) == [kind |-> "clip", channels |-> f.channels, samples |-> f.n]

(* lines 234-237 *)
Resample(waveform, sr) ==
    IF sr # sample_rate
    THEN [waveform EXCEPT !.samples = ResampleLength(sr, sample_rate, waveform.samples)]
    ELSE waveform

(* lines 243-244: torch.zeros(waveform.shape[0], silence_samples) *)
SilenceLike(waveform, silence_dms) ==
    [kind |-> "silence", channels |-> waveform.channels,
     samples |-> SilenceSamples(silence_dms)]

RECURSIVE LoadAll(_, _, _)
(* lines 219-245 for files that exist, from position k on; the rows carry  *)
(* the labels 0, 1, ... in this order                                      *)
LoadAll(clips, k, silence_dms) ==
    IF k > Len(clips) THEN <<>>
    ELSE LET waveform == Resample(Load(clips[k]), clips[k].sr)
         IN <<waveform>>
            \o (IF SilenceAfter(k, Len(clips))
                THEN <<SilenceLike(waveform, silence_dms)>> ELSE <<>>)
            \o LoadAll(clips, k + 1, silence_dms)

RECURSIVE TotalSamples(_)
TotalSamples(waveforms) ==
    IF waveforms = <<>> THEN 0
    ELSE Head(waveforms).samples + TotalSamples(Tail(waveforms))

(* line 248: torch.cat(waveforms, dim=1) needs equal sizes in dimension 0 *)
CatFails(waveforms) ==
    \E a, b \in DOMAIN waveforms : waveforms[a].channels # waveforms[b].channels

Assemble ==
    /\ asm.clips # <<>>
    /\ ~asm.returned
    /\ LET waveforms == LoadAll(asm.clips, 1, asm.silence_dms)
       IN asm' = [asm EXCEPT
                    !.returned = TRUE,
                    !.waveforms = waveforms,
                    !.status = IF CatFails(waveforms)
                               THEN "RuntimeError: torch.cat" ELSE "ok",
                    !.combined = IF CatFails(waveforms)
                                 THEN [channels |-> 0, samples |-> 0]
                                 ELSE [channels |-> waveforms[1].channels,
                                       samples  |-> TotalSamples(waveforms)]]
    /\ UNCHANGED <<dir, collab, observe, t2j, writers, main, api, handlerVars,
                   disk, ttsVars, combineVars>>

InitAssemble ==
    /\ dir = WatchedDir
    /\ collab = "any"
    /\ observe = FALSE
    /\ lastCall = NoCall
    /\ t2j = NoText2Json
    /\ audioHist = NoAudioHist
    /\ writers = NoWriters
    /\ main = NoMain
    /\ api = NoApi
    /\ \E n \in 1..MaxClips : \E clips \in [1..n -> AudioFiles] :
          \E d \in Durations :
             asm = [NoAsm EXCEPT !.clips = clips, !.silence_dms = d]
    /\ csv = <<>>
    /\ processed_files = {}
    /\ scanTodo = {}
    /\ disk = {}
    /\ ttsPc = "idle"
    /\ df = <<>>
    /\ ttsIdx = 0
    /\ calls = <<>>
    /\ ttsReturn = NotReturned
    /\ combineStatus = "none"
    /\ output = <<>>

NextAssemble == Assemble

SpecAssemble == InitAssemble /\ [][NextAssemble]_vars

MaxChannels(clips) ==
    CHOOSE c \in {1, 2} : /\ \E k \in DOMAIN clips : clips[k].channels = c
                          /\ \A k \in DOMAIN clips : clips[k].channels <= c

(* C23: combine_audiobook completes on clips of different channel counts   *)
(* and its output has the largest channel count found among the clips.     *)
C23_ChannelsNormalised ==
    asm.returned =>
        /\ asm.status = "ok"
        /\ asm.combined.channels = MaxChannels(asm.clips)

(* C24: every silence gap that combine_audiobook inserts has               *)
(* round(silence_duration * 24000) samples, also when the product is not   *)
(* an integer.                                                             *)
C24_SilenceRounded ==
    asm.returned =>
        \A k \in DOMAIN asm.waveforms :
            IsSilence(asm.waveforms[k]) =>
                asm.waveforms[k].samples = SilenceSamplesRounded(asm.silence_dms)

(* n * 24000 / r as a fraction of small numbers: every rate is a multiple   *)
(* of 50                                                                   *)
RatioNum(n) == n * (sample_rate \div 50)

RatioDen(r) == r \div 50

(* the waveform that combine_audiobook made of the k-th audio file *)
WaveformOf(k) == asm.waveforms[2 * k - 1]

OnCreatedEffect(p) ==
    IF Suffix(p) \in image_extensions /\ p \notin processed_files
    THEN \E page_data \in Answers(p), write_ok \in BOOLEAN :
            /\ processed_files' = processed_files \cup {p}
            /\ csv' = IF page_data.ok
                      THEN append_to_csv(csv, PageRow(p, page_data), write_ok)
                      ELSE csv
    ELSE UNCHANGED <<csv, processed_files>>

(* C26: an iteration of process_existing_files on a path changes the table *)
(* and processed_files as an on_created event for that path would, also    *)
(* when the path is already in processed_files.                            *)
C26_ScanAsOnCreated ==
    [][\A p \in dir :
          (p \in scanTodo /\ p \notin scanTodo' /\ lastCall'.path = p)
              => OnCreatedEffect(p)]_vars


(***************************************************************************)
(* The control flow of one invocation of main (main.py lines 104-185):     *)
(* pc is the statement the main thread is at, log the calls it has begun   *)
(* and ended.                                                              *)
(***************************************************************************)
notMain == <<dir, collab, observe, t2j, writers, asm, api, handlerVars, disk,
             ttsVars, combineVars>>

Logged(m, event) == [m EXCEPT !.log = Append(m.log, event)]

At(m, pc) == [m EXCEPT !.pc = pc]

(* a block that synthesizes only when --generate-audio is given *)
BatchRunsIfAsked(m) == m.generate_audio

(* lines 128-150: text_to_speech_batch is called whenever the block is     *)
(* entered, with --generate-audio or with --combine-audiobook              *)
BatchRuns(m) == m.generate_audio \/ m.combine_audiobook

(* line 165 *)
WatcherCondition(m) ==
    m.process_existing /\ ~(m.generate_audio \/ m.combine_audiobook)

(* lines 93-121: the options and the handler *)
MainInvoke ==
    /\ main.pc = "none"
    /\ \E pe, ga, ca, am \in BOOLEAN :
          main' = [NoMain EXCEPT !.pc = "scan?", !.process_existing = pe,
                                 !.generate_audio = ga, !.combine_audiobook = ca,
                                 !.audio_models = am]
    /\ UNCHANGED notMain

(* lines 124-125 *)
MainScan ==
    /\ main.pc = "scan?"
    /\ main' = IF main.process_existing
               THEN At(Logged(main, "scan_start"), "scan")
               ELSE At(main, "audio?")
    /\ UNCHANGED notMain

(* process_existing_files returns *)
MainScanReturn ==
    /\ main.pc = "scan"
    /\ main' = At(Logged(main, "scan_return"), "audio?")
    /\ UNCHANGED notMain

(* lines 128-150: the test of the flags, the validation of the model paths *)
(* and the call of text_to_speech_batch                                    *)
MainAudio ==
    /\ main.pc = "audio?"
    /\ main' = IF ~(main.generate_audio \/ main.combine_audiobook)
               THEN At(main, "watch?")
               ELSE IF ~main.audio_models
               THEN At(Logged(main, "return"), "exit")
               ELSE IF BatchRuns(main)
               THEN At(Logged(main, "tts_start"), "tts")
               ELSE At(main, "combine?")
    /\ UNCHANGED notMain

(* text_to_speech_batch returns *)
MainTTSReturn ==
    /\ main.pc = "tts"
    /\ main' = At(Logged(main, "tts_return"), "combine?")
    /\ UNCHANGED notMain

(* lines 153-156 *)
MainCombineCall ==
    /\ main.pc = "combine?"
    /\ main' = IF main.combine_audiobook
               THEN At(Logged(main, "combine_start"), "combine")
               ELSE At(main, "watching?")
    /\ UNCHANGED notMain

(* combine_audiobook returns *)
MainCombineReturn ==
    /\ main.pc = "combine"
    /\ main' = At(Logged(main, "combine_return"), "watching?")
    /\ UNCHANGED notMain

(* lines 160-162 *)
MainAfterAudio ==
    /\ main.pc = "watching?"
    /\ main' = IF ~main.process_existing
               THEN At(Logged(main, "return"), "exit")
               ELSE At(main, "watch?")
    /\ UNCHANGED notMain

(* lines 165-175: observer.start() *)
MainWatch ==
    /\ main.pc = "watch?"
    /\ main' = IF WatcherCondition(main)
               THEN [At(Logged(main, "watch_start"), "sleep") EXCEPT !.watching = TRUE]
               ELSE At(Logged(main, "return"), "exit")
    /\ UNCHANGED notMain

(* lines 177-185: KeyboardInterrupt in the sleep loop, observer.stop() *)
MainInterrupt ==
    /\ main.pc = "sleep"
    /\ main' = [At(Logged(main, "watch_stop"), "exit") EXCEPT !.watching = FALSE]
    /\ UNCHANGED notMain

(* an exception leaves process_existing_files, text_to_speech_batch or     *)
(* combine_audiobook: main does not catch it                               *)
MainRaise ==
    /\ main.pc \in {"scan", "tts", "combine"}
    /\ main' = At(Logged(main, "raise"), "exit")
    /\ UNCHANGED notMain

NextMainFlow ==
    \/ MainInvoke
    \/ MainScan
    \/ MainScanReturn
    \/ MainAudio
    \/ MainTTSReturn
    \/ MainCombineCall
    \/ MainCombineReturn
    \/ MainAfterAudio
    \/ MainWatch
    \/ MainInterrupt
    \/ MainRaise

SpecMainFlow == Init /\ [][NextMainFlow]_vars

(* the positions of the log that hold the event *)
LogAt(event) == {i \in DOMAIN main.log : main.log[i] = event}

(* C27: in one invocation of main, text_to_speech_batch begins only after  *)
(* process_existing_files (if it ran) returned, combine_audiobook begins   *)
(* only after text_to_speech_batch returned, and the watcher is not        *)
(* running while the main thread is in either of them.                     *)
C27_PhasesSequential ==
    /\ \A i \in LogAt("tts_start") :
          /\ main.process_existing => \E j \in LogAt("scan_return") : j < i
          /\ \A j \in LogAt("scan_start") : j < i
    /\ \A i \in LogAt("combine_start") :
          /\ \E j \in LogAt("tts_return") : j < i
          /\ \A j \in LogAt("tts_start") : j < i
    /\ main.pc \in {"scan", "tts", "combine"} => ~main.watching
    /\ \A i \in LogAt("watch_start") :
          \A j \in LogAt("tts_start") \cup LogAt("combine_start") :
              j < i /\ \E k \in LogAt("tts_return") \cup LogAt("combine_return") :
                          j < k /\ k < i

C27_Witness ==
    /\ main.pc = "exit"
    /\ main.log = <<"scan_start", "scan_return", "tts_start", "tts_return",
                    "combine_start", "combine_return", "return">>

(* C28: within one run of text_to_speech_batch the records are submitted   *)
(* in one pass: the submitted rows are strictly increasing, so none is     *)
(* submitted twice, and whatever way a call ended (timeout included) the   *)
(* loop has gone past its row.                                             *)
C28_NoRetry ==
    /\ \A a, b \in DOMAIN calls : a < b => calls[a].row < calls[b].row
    /\ Len(audioHist.outcomes) = Len(calls)
    /\ ttsPc = "loop" =>
          /\ ttsIdx <= Len(df) + 1
          /\ \A a \in DOMAIN calls : calls[a].row < ttsIdx

C28_Witness ==
    /\ ttsPc = "done"
    /\ Len(calls) = 2
    /\ audioHist.outcomes[1] = "timeout"
    /\ ~calls[1].ok
    /\ csv[calls[1].row].audio_path = ""

(* C29: after a run of text_to_speech_batch no two records of the table    *)
(* have the same audio_path, and the file a record names was last written  *)
(* by the synthesis of that record's text, also for records of equal       *)
(* page_number.                                                            *)
C29_OwnAudioFile ==
    ttsPc = "done" =>
        /\ \A i, j \in RowsWithAudio : i # j => csv[i].audio_path # csv[j].audio_path
        /\ \A i \in RowsWithFile :
              [file |-> csv[i].audio_path, row |-> i] \in audioHist.content


(***************************************************************************)
(* POST /api/extract-text with an uploaded file (api.py lines 168-207).    *)
(***************************************************************************)
ALLOWED_EXTENSIONS == {".png", ".jpg", ".jpeg", ".gif", ".bmp", ".webp"}

(* line 43-45 *)
allowed_file(filename) == Suffix(filename) \in ALLOWED_EXTENSIONS

(* line 193: 'success' if result else 'failed'; None is falsy *)
UploadStatus(result) == IF result # None THEN "success" ELSE "failed"

(* one uploaded file of one request: the handler is made for the request   *)
(* (line 180), so its processed_files is empty and is dropped afterwards;  *)
(* secure_filename leaves the names of the model as they are               *)
Upload(file) ==
    /\ IF allowed_file(file)
       THEN \E page_data \in Answers(file), write_ok \in BOOLEAN :
              LET call == CallRecord(file, page_data, write_ok)
              IN /\ IF page_data.ok
                    THEN /\ Len(csv) < MaxRows
                         /\ csv' = append_to_csv(csv, PageRow(file, page_data),
                                                 write_ok)
                    ELSE csv' = csv
                 /\ lastCall' = IF observe THEN call ELSE lastCall
                 /\ api' = [filename |-> file,
                            status   |-> IF call.raised # "none"
                                         THEN "error"          \* line 249
                                         ELSE UploadStatus(call.returned)]
       ELSE UNCHANGED <<csv, lastCall, api>>
    /\ UNCHANGED <<dir, collab, observe, t2j, writers, asm, main,
                   processed_files, scanTodo, disk, ttsVars, combineVars>>

NextUpload == \E file \in dir : Upload(file)

(* the files a client uploads are those of AllFiles *)
InitUpload ==
    /\ dir = AllFiles
    /\ collab = "ingest"
    /\ observe = TRUE
    /\ InitPipeline

SpecUpload == InitUpload /\ [][NextUpload]_vars

(* C30: the result of an uploaded file has status 'success' exactly when   *)
(* the request appended a row for the file to the table, and 'failed'      *)
(* exactly when it appended none.                                          *)
C30_UploadStatus ==
    [][api'.filename # "" =>
          /\ api'.status = "success" <=>
                (Len(csv') = Len(csv) + 1 /\ csv'[Len(csv')].file_path = api'.filename)
          /\ api'.status = "failed" <=> csv' = csv]_vars

=============================================================================
